---- MODULE Spec2Model ----
(***************************************************************************)
(* Model of send_location.py: the telemetry sender (send_telemetry), the   *)
(* movement simulator (simulate_movement) and the command-line driver      *)
(* (main).                                                                 *)
(*                                                                         *)
(* Units.  Latitude and longitude are integers in units of 1e-7 degree, so *)
(* that round(x, 6) is a real rounding.  The battery is an integer in      *)
(* tenths of a percent, so that int(battery) is a real truncation.  Time   *)
(* is the wall clock in whole seconds.                                     *)
(*                                                                         *)
(* An optional value (Python's None or a value) is a sequence of length    *)
(* at most one: << >> is None, <<v>> is the value v.                       *)
(***************************************************************************)
EXTENDS Integers, Sequences, FiniteSets, TLC

VARIABLES
    pc,            \* position of the single thread of control
    args,          \* the parsed command line (argparse namespace)
    now,           \* time.time(), whole seconds
    start_time,    \* simulate_movement: start_time
    current_lat,   \* simulate_movement: current_lat
    current_lon,   \* simulate_movement: current_lon
    battery,       \* simulate_movement: battery (tenths of a percent)
    update_count,  \* simulate_movement: update_count
    call,          \* arguments of the last call of send_telemetry
    payload,       \* body of the last POST
    outcome,       \* what the last POST did
    response,      \* what the last call of send_telemetry returned
    posts,         \* number of POST attempts made (network-call counter)
    ok2xx,         \* number of POSTs answered with a 2xx status
    out,           \* kinds of lines printed so far
    reported       \* the count printed by "Simulation complete. Sent N updates."

vars == << pc, args, now, start_time, current_lat, current_lon, battery,
           update_count, call, payload, outcome, response, posts, ok2xx, out,
           reported >>

----------------------------------------------------------------------------
(* Optional values *)

None == << >>

Some(v) == << v >>

IsNone(o) == o = None

Val(o) == o[1]

----------------------------------------------------------------------------
(* Bounds of the model *)

\* a POST takes 0..MaxLatency seconds
MaxLatency == 1

\* ticks a run with interval 0 is followed for (it does not end by itself
\* when the clock does not advance); a run with interval > 0 is never cut
MaxTicks == 3

\* duration of the long run that drains the battery to 0 (interval 1)
BattDuration == 203

----------------------------------------------------------------------------
(* Program constants *)

\* battery = 100
BatteryStart == 1000

\* parser defaults of --duration and --interval
DefaultDuration == 60

DefaultInterval == 5

\* random.uniform(-0.001, 0.001), in 1e-7 degree
MaxDelta == 10000

\* random.uniform(0.1, 0.5), in tenths of a percent
MinDrain == 1

MaxDrain == 5

\* random.randint(5, 20) and random.randint(50, 100)
MinAcc == 5

MaxAcc == 20

MinAlt == 50

MaxAlt == 100

----------------------------------------------------------------------------
(* Pure functions *)

Max(a, b) == IF a >= b THEN a ELSE b

\* round(x, 6) of a value in 1e-7 degree: to the nearest multiple of 10,
\* a tie going to the even digit
Round6(x) ==
    LET q == x \div 10
        r == x % 10
    IN  IF r < 5 THEN 10 * q
        ELSE IF r > 5 THEN 10 * (q + 1)
        ELSE IF q % 2 = 0 THEN 10 * q ELSE 10 * (q + 1)

\* int(battery) of a value in tenths: truncation towards zero
IntOf(b) == IF b >= 0 THEN b \div 10 ELSE -((-b) \div 10)

\* a mutation of Drained: the floor at 0 left out
Drained_NoFloor(b, drain) == b - drain

\* battery = max(0, battery - drain)
Drained(b, drain) == Max(0, b - drain)

\* a mutation of IsNotNone: "if x:" in the place of "if x is not None:"
IsNotNone_Truthiness(o) == ~IsNone(o) /\ Val(o) # 0

\* "x is not None"
IsNotNone(o) == ~IsNone(o)

\* truth value of an optional integer: "if x:"
Truthy(o) == ~IsNone(o) /\ Val(o) # 0

\* the keys send_telemetry puts in the payload
PayloadKeys(batt, acc, alt) ==
    {"_type", "lat", "lon", "tst"}
        \cup (IF IsNotNone(batt) THEN {"batt"} ELSE {})
        \cup (IF IsNotNone(acc) THEN {"acc"} ELSE {})
        \cup (IF IsNotNone(alt) THEN {"alt"} ELSE {})

\* the payload send_telemetry builds at time t; "_type" carries the tag
\* "location"; "lat" and "lon" carry what the caller passed, a number or
\* None (JSON null); every other key carries an integer
BuildPayload(lat, lon, batt, acc, alt, t) ==
    [k \in PayloadKeys(batt, acc, alt) |->
        CASE k = "_type" -> "location"
          [] k = "lat"   -> lat
          [] k = "lon"   -> lon
          [] k = "tst"   -> t
          [] k = "batt"  -> Val(batt)
          [] k = "acc"   -> Val(acc)
          [] k = "alt"   -> Val(alt)]

\* what requests.post can do: answer with a status, or raise
Http(s) == [kind |-> "http", status |-> s]

ConnectionError == [kind |-> "connection_error", status |-> 0]

Timeout == [kind |-> "timeout", status |-> 0]

Statuses == {200, 204, 304, 404}

Outcomes == {Http(s) : s \in Statuses} \cup {ConnectionError, Timeout}

Is2xx(o) == o.kind = "http" /\ 200 <= o.status /\ o.status < 300

\* response.raise_for_status() raises HTTPError for 4xx and 5xx
RaisesForStatus(s) == 400 <= s /\ s < 600

\* the try/except of send_telemetry: the response, or None when
\* requests.post or raise_for_status raised a RequestException
SendReturn(o) ==
    IF o.kind # "http" THEN None
    ELSE IF RaisesForStatus(o.status) THEN None
    ELSE Some([status_code |-> o.status])

\* print(f"Error sending telemetry: {e}")
SendPrints(o) == IF IsNone(SendReturn(o)) THEN {"error_diag"} ELSE {}

\* truth value of a value returned by send_telemetry: None is false, a
\* Response is true when its status is below 400 (Response.__bool__)
ResponseTruthy(r) == ~IsNone(r) /\ Val(r).status_code < 400

\* "response and response.status_code == 200"
IsSuccess(r) == ResponseTruthy(r) /\ Val(r).status_code = 200

\* "args.lat is None or args.lon is None" of the --simulate branch
SimLatLonMissing(a) == IsNone(a.lat) \/ IsNone(a.lon)

\* a mutation of SingleLatLonMissing: "and" in the place of "or"
SingleLatLonMissing_And(a) == IsNone(a.lat) /\ IsNone(a.lon)

\* "args.lat is None or args.lon is None" of the single-send branch
SingleLatLonMissing(a) == IsNone(a.lat) \/ IsNone(a.lon)

----------------------------------------------------------------------------
(* send_telemetry, called at time now with POST outcome o after d seconds *)

SendTelemetry(lat, lon, batt, acc, alt, o, d) ==
    /\ call' = Some([lat |-> lat, lon |-> lon, batt |-> batt, acc |-> acc, alt |-> alt])
    /\ payload' = Some(BuildPayload(lat, lon, batt, acc, alt, now))
    /\ posts' = posts + 1
    /\ outcome' = Some(o)
    /\ ok2xx' = ok2xx + (IF Is2xx(o) THEN 1 ELSE 0)
    /\ now' = now + d
    /\ response' = SendReturn(o)

----------------------------------------------------------------------------
(* Command lines *)

Tokens == {None, Some("T")}

Lats == {None, Some(0), Some(340220004)}

Lons == {None, Some(0), Some(-1182850000)}

OptInts == {None, Some(0), Some(87)}

\* (duration, interval) of the simulated runs
Plans == { <<-1, 5>>, <<0, 5>>, <<4, 5>>, <<10, 5>>, <<12, 5>>, <<1, 0>>, <<4, -1>> }

\* single-send command lines: --duration and --interval keep their defaults
SingleArgs ==
    [token : Tokens, lat : Lats, lon : Lons, batt : OptInts, acc : OptInts,
     alt : OptInts, simulate : {FALSE}, duration : {DefaultDuration},
     interval : {DefaultInterval}]

\* --simulate command lines
SimArgs ==
    { [token |-> t, lat |-> la, lon |-> lo, batt |-> None, acc |-> None,
       alt |-> None, simulate |-> TRUE, duration |-> p[1], interval |-> p[2]] :
        t \in Tokens, la \in {None, Some(340220004)},
        lo \in {None, Some(-1182850000)}, p \in Plans }

\* the long run: one tick a second until the battery is empty
BattArgs ==
    [token |-> Some("T"), lat |-> Some(340220004), lon |-> Some(-1182850000),
     batt |-> None, acc |-> None, alt |-> None, simulate |-> TRUE,
     duration |-> BattDuration, interval |-> 1]

\* the draws of random.uniform and random.randint a run is followed for
Deltas == {-MaxDelta, MaxDelta}

Drains == {MinDrain, MaxDrain}

Accs == {MinAcc}

Alts == {MaxAlt}

Latencies == 0 .. MaxLatency

----------------------------------------------------------------------------
(* State after the interpreter has started, before main runs *)

InitWith(a) ==
    /\ pc = "start"
    /\ args = a
    /\ now = 0
    /\ start_time = 0
    /\ current_lat = 0
    /\ current_lon = 0
    /\ battery = 0
    /\ update_count = 0
    /\ call = None
    /\ payload = None
    /\ outcome = None
    /\ response = None
    /\ posts = 0
    /\ ok2xx = 0
    /\ out = {}
    /\ reported = None

Init == \E a \in SingleArgs \cup SimArgs : InitWith(a)

InitBatt == InitWith(BattArgs)

----------------------------------------------------------------------------
(* main *)

simLocals == << start_time, current_lat, current_lon, battery, update_count >>

netVars == << call, payload, outcome, response, posts, ok2xx, now >>

\* parser.parse_args(): --token is required
ParseArgs ==
    /\ pc = "start"
    /\ IF IsNone(args.token)
         THEN pc' = "usage_error" /\ out' = out \cup {"usage"}
         ELSE pc' = "main" /\ out' = out
    /\ UNCHANGED << args, simLocals, netVars, reported >>

\* parser.error(...) of either mode
UsageError ==
    /\ pc = "main"
    /\ IF args.simulate THEN SimLatLonMissing(args) ELSE SingleLatLonMissing(args)
    /\ pc' = "usage_error"
    /\ out' = out \cup {"usage"}
    /\ UNCHANGED << args, simLocals, netVars, reported >>

\* single-send mode: the call of send_telemetry
SingleSend(outcomes, latencies) ==
    /\ pc = "main"
    /\ ~args.simulate
    /\ ~SingleLatLonMissing(args)
    /\ \E o \in outcomes, d \in latencies :
          /\ SendTelemetry(args.lat, args.lon, args.batt, args.acc, args.alt, o, d)
          /\ out' = out \cup {"sending"} \cup SendPrints(o)
    /\ pc' = "single_sent"
    /\ UNCHANGED << args, simLocals, reported >>

\* the lines of the success summary
SuccessLines(a) ==
    {"success", "latitude", "longitude"}
        \cup (IF Truthy(a.batt) THEN {"battery"} ELSE {})
        \cup (IF Truthy(a.acc) THEN {"accuracy"} ELSE {})
        \cup (IF Truthy(a.alt) THEN {"altitude"} ELSE {})

\* the lines of the failure report
FailureLines(r) ==
    {"failed"} \cup (IF ResponseTruthy(r) THEN {"status_code", "response_text"} ELSE {})

\* single-send mode: the report
SingleReport ==
    /\ pc = "single_sent"
    /\ out' = out \cup (IF IsSuccess(response) THEN SuccessLines(args) ELSE FailureLines(response))
    /\ pc' = "done"
    /\ UNCHANGED << args, simLocals, netVars, reported >>

----------------------------------------------------------------------------
(* simulate_movement *)

\* entry: the header and the locals
SimStart ==
    /\ pc = "main"
    /\ args.simulate
    /\ ~SimLatLonMissing(args)
    /\ out' = out \cup {"sim_header"}
    /\ current_lat' = Val(args.lat)
    /\ current_lon' = Val(args.lon)
    /\ battery' = BatteryStart
    /\ start_time' = now
    /\ update_count' = 0
    /\ pc' = "sim_check"
    /\ UNCHANGED << args, netVars, reported >>

\* a mutation of LoopCondition: "<=" in the place of "<"
LoopCondition_Inclusive(t, t0, duration) == (t - t0) <= duration

\* "(time.time() - start_time) < duration"
LoopCondition(t, t0, duration) == (t - t0) < duration

\* the while test; when it fails, the closing lines
SimCheck ==
    /\ pc = "sim_check"
    /\ posts < MaxTicks \/ args.interval > 0
    /\ IF LoopCondition(now, start_time, args.duration)
         THEN /\ pc' = "sim_tick"
              /\ UNCHANGED << out, reported >>
         ELSE /\ pc' = "finished"
              /\ out' = out \cup {"complete"}
              /\ reported' = Some(update_count)
    /\ UNCHANGED << args, simLocals, netVars >>

\* the body of the loop up to the call of send_telemetry
SimTick(deltas, drains, accs, alts, outcomes, latencies) ==
    /\ pc = "sim_tick"
    /\ \E dlat \in deltas, dlon \in deltas, drain \in drains :
          /\ current_lat' = current_lat + dlat
          /\ current_lon' = current_lon + dlon
          /\ battery' = Drained(battery, drain)
    /\ \E accuracy \in accs, altitude \in alts, o \in outcomes, d \in latencies :
          /\ SendTelemetry(Some(Round6(current_lat')), Some(Round6(current_lon')),
                           Some(IntOf(battery')), Some(accuracy), Some(altitude), o, d)
          /\ out' = out \cup SendPrints(o)
    /\ pc' = "sim_sent"
    /\ UNCHANGED << args, start_time, update_count, reported >>

\* a mutation of SimSleep: a failed send ends the run instead of being
\* logged
SimSleep_FailureFatal ==
    /\ pc = "sim_sent"
    /\ IF IsSuccess(response)
         THEN /\ update_count' = update_count + 1
              /\ out' = out \cup {"update"}
              /\ IF args.interval < 0
                   THEN pc' = "raised" /\ now' = now
                   ELSE pc' = "sim_check" /\ now' = now + args.interval
         ELSE /\ update_count' = update_count
              /\ out' = out
              /\ pc' = "raised"
              /\ now' = now
    /\ UNCHANGED << args, start_time, current_lat, current_lon, battery,
                    call, payload, outcome, response, posts, ok2xx, reported >>

\* the rest of the body: the status line and time.sleep(interval), which
\* raises ValueError for a negative interval
SimSleep ==
    /\ pc = "sim_sent"
    /\ IF IsSuccess(response)
         THEN update_count' = update_count + 1 /\ out' = out \cup {"update"}
         ELSE update_count' = update_count /\ out' = out \cup {"update_failed"}
    /\ IF args.interval < 0
         THEN pc' = "raised" /\ now' = now
         ELSE pc' = "sim_check" /\ now' = now + args.interval
    /\ UNCHANGED << args, start_time, current_lat, current_lon, battery,
                    call, payload, outcome, response, posts, ok2xx, reported >>

----------------------------------------------------------------------------
(* Specifications *)

Next ==
    \/ ParseArgs
    \/ UsageError
    \/ SingleSend(Outcomes, Latencies)
    \/ SingleReport
    \/ SimStart
    \/ SimCheck
    \/ SimTick(Deltas, Drains, Accs, Alts, Outcomes, Latencies)
    \/ SimSleep

Spec == Init /\ [][Next]_vars

\* the runs of the simulator alone, every outcome and latency of every send,
\* one draw of the drain, of the accuracy and of the altitude
InitSim == \E a \in SimArgs : InitWith(a)

NextSim ==
    \/ ParseArgs
    \/ UsageError
    \/ SimStart
    \/ SimCheck
    \/ SimTick(Deltas, {MinDrain}, {MaxAcc}, {MinAlt}, Outcomes, Latencies)
    \/ SimSleep

\* the program runs on: a step that can be taken is taken
FairSim == InitSim /\ [][NextSim]_vars /\ WF_vars(NextSim)

\* the long run: every draw of the drain, a server that answers 200 at once
NextBatt ==
    \/ ParseArgs
    \/ SimStart
    \/ SimCheck
    \/ SimTick({0}, {MinDrain, 3, MaxDrain}, {MinAcc, MaxAcc}, {MinAlt, MaxAlt}, {Http(200)}, {0})
    \/ SimSleep

SpecBatt == InitBatt /\ [][NextBatt]_vars

----------------------------------------------------------------------------
(* Properties *)

Sent == ~IsNone(payload)

Running == pc \in {"sim_check", "sim_tick", "sim_sent"}

InSimulator == Running \/ pc \in {"finished", "raised"}

\* C1: every payload posted holds _type, lat, lon and tst, and holds batt
\* (resp. acc, alt) exactly when the caller passed a value for it, the value 0
\* included; a key of an argument that was not passed is absent.  In
\* single-send mode the arguments passed are the flags of the command line.
C1_PayloadFields ==
    Sent =>
        LET p == Val(payload)
            c == Val(call)
        IN  /\ {"_type", "lat", "lon", "tst"} \subseteq DOMAIN p
            /\ DOMAIN p \subseteq {"_type", "lat", "lon", "tst", "batt", "acc", "alt"}
            /\ p["_type"] = "location"
            /\ p["lat"] = c.lat /\ p["lon"] = c.lon
            /\ p["tst"] <= now
            /\ "batt" \in DOMAIN p <=> ~IsNone(c.batt)
            /\ "acc" \in DOMAIN p <=> ~IsNone(c.acc)
            /\ "alt" \in DOMAIN p <=> ~IsNone(c.alt)
            /\ "batt" \in DOMAIN p => p["batt"] = Val(c.batt)
            /\ "acc" \in DOMAIN p => p["acc"] = Val(c.acc)
            /\ "alt" \in DOMAIN p => p["alt"] = Val(c.alt)
            /\ pc \in {"single_sent", "done"} =>
                  c.batt = args.batt /\ c.acc = args.acc /\ c.alt = args.alt

\* a payload posted with --batt 0 and --alt 0 and without --acc
C1_Witness ==
    /\ Sent
    /\ pc = "single_sent"
    /\ args.batt = Some(0)
    /\ IsNone(args.acc)
    /\ args.alt = Some(0)
    /\ DOMAIN Val(payload) = {"_type", "lat", "lon", "tst", "batt", "alt"}

\* C2: after a call of send_telemetry the caller holds the response when the
\* POST was answered with a 2xx status and None for every other outcome
\* (network error, timeout, status that is not 2xx), one POST per call.
C2_SenderContract ==
    ~IsNone(outcome) =>
        LET o == Val(outcome)
        IN  /\ Is2xx(o) => response = Some([status_code |-> o.status])
            /\ ~Is2xx(o) => IsNone(response)

\* C3: at the end of a simulation update_count, and the count reported, is
\* the number of ticks whose POST was answered with a 2xx status.
C3_CountsEvery2xx ==
    pc = "finished" => update_count = ok2xx /\ reported = Some(ok2xx)

\* C4: in single-send mode the success summary is printed exactly when the
\* POST was answered with a 2xx status, and the failure line otherwise.
C4_SuccessIff2xx ==
    pc = "done" =>
        /\ "success" \in out <=> Is2xx(Val(outcome))
        /\ "failed" \in out <=> ~Is2xx(Val(outcome))

\* C5: in single-send mode an answer with a status that is not 2xx prints
\* the failure line with the status code and the body text; a transport
\* error prints the failure line alone.
C5_FailureShowsStatus ==
    pc = "done" /\ ~Is2xx(Val(outcome)) =>
        /\ "failed" \in out
        /\ {"status_code", "response_text"} \subseteq out <=> Val(outcome).kind = "http"
        /\ Val(outcome).kind # "http" => "status_code" \notin out /\ "response_text" \notin out

\* C6: after a successful single send the Battery (resp. Accuracy, Altitude)
\* line is printed exactly when --batt (resp. --acc, --alt) was given, the
\* value 0 included: the optional lines printed are the optional keys of the
\* payload.
C6_SummaryShowsSupplied ==
    pc = "done" /\ "success" \in out =>
        /\ "battery" \in out <=> ~IsNone(args.batt)
        /\ "accuracy" \in out <=> ~IsNone(args.acc)
        /\ "altitude" \in out <=> ~IsNone(args.alt)
        /\ "battery" \in out <=> "batt" \in DOMAIN Val(payload)
        /\ "accuracy" \in out <=> "acc" \in DOMAIN Val(payload)
        /\ "altitude" \in out <=> "alt" \in DOMAIN Val(payload)

TicksDue(duration, interval) ==
    Cardinality({k \in 0 .. Max(0, duration) : k * interval < duration})

\* C8: a tick is entered exactly when the elapsed time is below the duration
\* at the test.  When no send took any time and interval > 0, a finished run
\* made as many ticks as there are integers k >= 0 with k * interval <
\* duration; a run with 0 < duration < interval makes one tick at most; a
\* finished run made no tick only when duration <= 0.
C8_CheckThenTick ==
    /\ pc = "sim_tick" => (now - start_time) < args.duration
    /\ pc = "finished" => ~((now - start_time) < args.duration)
    /\ pc = "finished" /\ args.interval > 0 /\ now - start_time = posts * args.interval
          => posts = TicksDue(args.duration, args.interval)
    /\ InSimulator /\ 0 < args.duration /\ args.duration < args.interval => posts <= 1
    /\ pc = "finished" => (posts = 0 <=> args.duration <= 0)

\* --duration 12 --interval 5, sends that took no time: three ticks
C8_Witness ==
    /\ pc = "finished"
    /\ args.duration = 12
    /\ args.interval = 5
    /\ now - start_time = 15
    /\ posts = 3

\* C9: a tick makes one POST attempt and then sleeps for interval, whatever
\* the outcome of the send; after the sleep comes the next test of the elapsed
\* time; and with interval > 0 every run of the simulator reaches the finished
\* state and reports update_count, whatever the outcomes of its sends.
C9_FailureNotFatal ==
    /\ [][ pc = "sim_tick" => posts' = posts + 1 /\ pc' = "sim_sent" ]_vars
    /\ [][ pc = "sim_sent" /\ args.interval >= 0 =>
              /\ pc' = "sim_check"
              /\ now' = now + args.interval
              /\ posts' = posts ]_vars
    /\ [](Running /\ args.interval > 0 => <>(pc = "finished" /\ reported = Some(update_count)))

\* a finished run of three ticks whose sends all failed
C9_Witness ==
    /\ pc = "finished"
    /\ args.interval > 0
    /\ posts = 3
    /\ ok2xx = 0
    /\ update_count = 0
    /\ reported = Some(0)

\* C10: in the simulator the battery starts at 100, never rises from one tick
\* to the next and is never below 0; the integer passed to the sender lies in
\* 0 .. 100 and never rises from one send to the next.
C10_BatteryFloor ==
    /\ [](pc = "sim_check" /\ posts = 0 => battery = 1000)
    /\ [](InSimulator => 0 <= battery /\ battery <= 1000)
    /\ [](InSimulator /\ Sent => Val(Val(call).batt) \in 0 .. 100)
    /\ [](InSimulator /\ Sent => Val(payload)["batt"] = IntOf(battery))
    /\ [][ InSimulator => battery' <= battery ]_vars
    /\ [][ InSimulator /\ Sent => Val(payload')["batt"] <= Val(payload)["batt"] ]_vars

\* the battery is empty after an odd number of ticks: every draw followed is
\* an odd number of tenths, so the drains sum to an odd number, which is not
\* 1000: the drain of some tick was more than what was left
C10_Witness ==
    /\ pc = "sim_sent"
    /\ posts = 201
    /\ battery = 0
    /\ Val(payload)["batt"] = 0

====
